---- MODULE Spec2Model ----
(***************************************************************************)
(* Remote Processor Framework (drivers/remoteproc/remoteproc.c).           *)
(*                                                                         *)
(* The model follows the C source: a registry list of rproc records, the  *)
(* reference counted rproc_get / rproc_put protocol, the asynchronous     *)
(* firmware callback rproc_load_fw with the section loader and the        *)
(* resource handler, and rproc_register / rproc_unregister.  Each caller  *)
(* is a thread with a program position; every firmware fetch is a worker  *)
(* of its own.                                                            *)
(***************************************************************************)
EXTENDS Integers, Sequences, FiniteSets, TLC

(* ------------------------------------------------------------------ *)
(* Bounds of the model                                                 *)
(* ------------------------------------------------------------------ *)
NThreads == 2      \* calling threads
MaxRecs  == 1      \* records ever allocated by rproc_register
MaxLoads == 1      \* firmware fetches in flight at once
MaxAsym  == 1      \* calls of rproc_put without a handle (SpecAsym only)
MaxCount == 2      \* rproc_get is called only while fewer module pins are out
MaxDup   == 1      \* further records the registry alone may hold (SpecReg only)

Threads == 1..NThreads
RecIds  == 1..(MaxRecs + MaxDup)
LoadIds == 1..MaxLoads
NULL    == 0

(* ------------------------------------------------------------------ *)
(* Binary format of the firmware (include/linux/remoteproc.h)          *)
(* ------------------------------------------------------------------ *)
SIZEOF_FW_HEADER   == 12     \* char magic[4]; u32 version; u32 header_len
SIZEOF_FW_SECTION  == 16     \* u32 type; u64 da; u32 len  (packed)
SIZEOF_FW_RESOURCE == 76     \* u32,u64,u64,u32,u32,u8[48] (packed)

FW_RESOURCE == 0
FW_TEXT     == 1
FW_DATA     == 2

RSC_CARVEOUT == 0
RSC_TRACE    == 4
RSC_BOOTADDR == 5

(* Widths.  TLC's integers are 32 bit, so the 32 bit quantities of the   *)
(* source (int, u32, size_t and phys_addr_t on the 32 bit ARM targets)   *)
(* are modelled 12 bits wide and the 64 bit ones (u64) 16 bits wide; all *)
(* arithmetic wraps at these widths exactly as the C arithmetic wraps.   *)
W32 == 2^12
W64 == 2^16
U32(x) == x % W32
U64(x) == x % W64

(* ------------------------------------------------------------------ *)
(* rproc_da_to_pa                                                      *)
(* ------------------------------------------------------------------ *)
\* A memory_maps value is [null |-> TRUE] for the NULL pointer, or
\* [null |-> FALSE, tab |-> <<entries>>]; the table ends at its first entry
\* of size 0 (the sentinel).
NoMaps == [null |-> TRUE, tab |-> <<>>]

\* index of the first entry of maps[from..] containing da, 0 when the
\* zero-size sentinel is reached first
RECURSIVE MapMatch(_, _, _)
MapMatch(maps, da, i) ==
    IF i > Len(maps) \/ maps[i].size = 0 THEN 0
    ELSE IF da >= maps[i].da /\ da < U64(maps[i].da + maps[i].size) THEN i
    ELSE MapMatch(maps, da, i + 1)

rproc_da_to_pa(maps, da) ==
    IF maps.null
    THEN IF da > W32 - 1 THEN [ret |-> "EINVAL", pa |-> 0]
                         ELSE [ret |-> "OK", pa |-> U32(da)]
    ELSE LET i == MapMatch(maps.tab, da, 1) IN
         IF i = 0 THEN [ret |-> "EINVAL", pa |-> 0]
         ELSE [ret |-> "OK",
               pa |-> U32(maps.tab[i].pa + U64(da - maps.tab[i].da))]

(* ------------------------------------------------------------------ *)
(* Trace buffers.  A trace_buf pointer is "null", "live" (it points to *)
(* a mapping obtained from ioremap_nocache) or "stale" (the mapping it *)
(* points to was given back with iounmap but the pointer was kept).    *)
(* ------------------------------------------------------------------ *)
NoTrace == [b0 |-> "null", l0 |-> 0, b1 |-> "null", l1 |-> 0]

iounmap(b) == IF b = "null" THEN "null" ELSE "stale"

\* variant of rproc_handle_trace_rsc that skips a trace entry met while
\* both buffers are taken and returns 0
HandleTraceSkipExtra(maps, tr, rsc, ioOk) ==
    IF rproc_da_to_pa(maps, rsc.da).ret # "OK"
    THEN [ret |-> "EINVAL", tr |-> tr, io |-> 0]
    ELSE IF tr.b0 # "null" /\ tr.b1 # "null"
    THEN [ret |-> "OK", tr |-> tr, io |-> 0]
    ELSE IF ~ioOk
    THEN [ret |-> "ENOMEM", tr |-> tr, io |-> 1]
    ELSE IF tr.b0 = "null"
    THEN [ret |-> "OK", tr |-> [tr EXCEPT !.b0 = "live", !.l0 = rsc.len], io |-> 1]
    ELSE [ret |-> "OK", tr |-> [tr EXCEPT !.b1 = "live", !.l1 = rsc.len], io |-> 1]

\* rproc_handle_trace_rsc: tr are the record's trace fields, ioOk says
\* whether ioremap_nocache returns a mapping
rproc_handle_trace_rsc(maps, tr, rsc, ioOk) ==
    IF rproc_da_to_pa(maps, rsc.da).ret # "OK"
    THEN [ret |-> "EINVAL", tr |-> tr, io |-> 0]
    ELSE IF tr.b0 # "null" /\ tr.b1 # "null"
    THEN [ret |-> "EBUSY", tr |-> tr, io |-> 0]
    ELSE IF ~ioOk
    THEN [ret |-> "ENOMEM", tr |-> tr, io |-> 1]
    ELSE IF tr.b0 = "null"
    THEN [ret |-> "OK", tr |-> [tr EXCEPT !.b0 = "live", !.l0 = rsc.len], io |-> 1]
    ELSE [ret |-> "OK", tr |-> [tr EXCEPT !.b1 = "live", !.l1 = rsc.len], io |-> 1]

\* variant of the loop that keeps a boot address once one is recorded
RECURSIVE RscLoopKeepFirst(_, _, _, _, _, _, _, _)
RscLoopKeepFirst(maps, tr, rscs, i, len, bootaddr, failAt, nio) ==
    IF ~(len >= SIZEOF_FW_RESOURCE) \/ i > Len(rscs)
    THEN [ret |-> "OK", tr |-> tr, bootaddr |-> bootaddr]
    ELSE LET rsc == rscs[i] IN
         IF rsc.type = RSC_TRACE
         THEN LET h == rproc_handle_trace_rsc(maps, tr, rsc, nio + 1 # failAt) IN
              IF h.ret # "OK"
              THEN [ret |-> h.ret, tr |-> h.tr, bootaddr |-> bootaddr]
              ELSE RscLoopKeepFirst(maps, h.tr, rscs, i + 1,
                                    U32(len - SIZEOF_FW_RESOURCE),
                                    bootaddr, failAt, nio + h.io)
         ELSE RscLoopKeepFirst(maps, tr, rscs, i + 1,
                               U32(len - SIZEOF_FW_RESOURCE),
                               IF rsc.type = RSC_BOOTADDR /\ bootaddr = 0
                               THEN rsc.da ELSE bootaddr,
                               failAt, nio)

\* the while loop of rproc_handle_resources over entries i, i+1, ... while
\* len >= sizeof(*rsc) (an unsigned comparison); failAt is the number of the
\* ioremap_nocache call of this section that fails (0: none), nio the number
\* of calls made so far
RECURSIVE RscLoop(_, _, _, _, _, _, _, _)
RscLoop(maps, tr, rscs, i, len, bootaddr, failAt, nio) ==
    IF ~(len >= SIZEOF_FW_RESOURCE) \/ i > Len(rscs)
    THEN [ret |-> "OK", tr |-> tr, bootaddr |-> bootaddr]
    ELSE LET rsc == rscs[i] IN
         IF rsc.type = RSC_TRACE
         THEN LET h == rproc_handle_trace_rsc(maps, tr, rsc, nio + 1 # failAt) IN
              IF h.ret # "OK"
              THEN [ret |-> h.ret, tr |-> h.tr, bootaddr |-> bootaddr]
              ELSE RscLoop(maps, h.tr, rscs, i + 1, U32(len - SIZEOF_FW_RESOURCE),
                           bootaddr, failAt, nio + h.io)
         ELSE IF rsc.type = RSC_BOOTADDR
         THEN RscLoop(maps, tr, rscs, i + 1, U32(len - SIZEOF_FW_RESOURCE),
                      rsc.da, failAt, nio)
         ELSE RscLoop(maps, tr, rscs, i + 1, U32(len - SIZEOF_FW_RESOURCE),
                      bootaddr, failAt, nio)

\* variant of rproc_handle_resources that returns without unmapping
HandleResourcesNoUnmap(maps, tr, rscs, len, bootaddr, failAt) ==
    LET w == RscLoop(maps, tr, rscs, 1, len, bootaddr, failAt, 0) IN
    [ret |-> w.ret, tr |-> w.tr, bootaddr |-> w.bootaddr, dbl |-> FALSE]

\* rproc_handle_resources: the loop, then on failure both trace buffers are
\* unmapped (the pointers are left as they are); dbl tells that a pointer
\* whose mapping was already released was unmapped again
rproc_handle_resources(maps, tr, rscs, len, bootaddr, failAt) ==
    LET w == RscLoop(maps, tr, rscs, 1, len, bootaddr, failAt, 0) IN
    IF w.ret = "OK"
    THEN [ret |-> "OK", tr |-> w.tr, bootaddr |-> w.bootaddr, dbl |-> FALSE]
    ELSE [ret |-> w.ret,
          tr |-> [w.tr EXCEPT !.b0 = iounmap(@), !.b1 = iounmap(@)],
          bootaddr |-> w.bootaddr,
          dbl |-> w.tr.b0 = "stale" \/ w.tr.b1 = "stale"]

\* number of ioremap_nocache calls the trace entries of a section can make
NTrace(rscs) == Cardinality({i \in 1..Len(rscs) : rscs[i].type = RSC_TRACE})

\* variant of the iteration that unbinds the trace buffers when the
\* section fails
ProcessSectionRollback(maps, tr, sec, left, bootaddr, ioOk, failAt) ==
    LET left1 == U32(left - SIZEOF_FW_SECTION)
        undo  == [ret |-> "EINVAL",
                  tr |-> [tr EXCEPT !.b0 = "null", !.b1 = "null"],
                  left |-> left1, bootaddr |-> bootaddr, dbl |-> FALSE]
    IN
    IF left1 < sec.len
    THEN undo
    ELSE IF rproc_da_to_pa(maps, sec.da).ret # "OK"
    THEN undo
    ELSE IF ~ioOk
    THEN [undo EXCEPT !.ret = "ENOMEM"]
    ELSE IF sec.type = FW_RESOURCE
    THEN LET h == rproc_handle_resources(maps, tr, sec.rsc, sec.len,
                                         bootaddr, failAt) IN
         [ret |-> h.ret, tr |-> h.tr,
          left |-> IF h.ret = "OK" THEN U32(left1 - sec.len) ELSE left1,
          bootaddr |-> h.bootaddr, dbl |-> h.dbl]
    ELSE [ret |-> "OK", tr |-> tr, left |-> U32(left1 - sec.len),
          bootaddr |-> bootaddr, dbl |-> FALSE]

\* One iteration of the while loop of rproc_process_fw on section sec with
\* `left` bytes remaining (left is an int compared against unsigned values,
\* so it is kept as its 32 bit pattern); the caller has checked
\* left > sizeof(struct fw_section).  ioOk: the section's ioremap_nocache
\* succeeds; failAt as above.
process_section(maps, tr, sec, left, bootaddr, ioOk, failAt) ==
    LET left1 == U32(left - SIZEOF_FW_SECTION)
        same  == [ret |-> "OK", tr |-> tr, left |-> left1,
                  bootaddr |-> bootaddr, dbl |-> FALSE]
    IN
    IF left1 < sec.len
    THEN [same EXCEPT !.ret = "EINVAL"]
    ELSE IF rproc_da_to_pa(maps, sec.da).ret # "OK"
    THEN [same EXCEPT !.ret = "EINVAL"]
    ELSE IF ~ioOk
    THEN [same EXCEPT !.ret = "ENOMEM"]
    ELSE IF sec.type = FW_RESOURCE
    THEN LET h == rproc_handle_resources(maps, tr, sec.rsc, sec.len,
                                         bootaddr, failAt) IN
         [ret |-> h.ret, tr |-> h.tr,
          left |-> IF h.ret = "OK" THEN U32(left1 - sec.len) ELSE left1,
          bootaddr |-> h.bootaddr, dbl |-> h.dbl]
    ELSE [same EXCEPT !.left = U32(left1 - sec.len)]

(* ------------------------------------------------------------------ *)
(* Firmware blobs the fetcher may hand to rproc_load_fw.  A blob is    *)
(* its size in bytes, whether the magic is "RPRC", header_len and the  *)
(* sections its bytes spell out after the text header (a section's rsc *)
(* are the len \div sizeof(struct fw_resource) entries of its content).*)
(* ------------------------------------------------------------------ *)
Sec(type, da, len, rsc) == [type |-> type, da |-> da, len |-> len, rsc |-> rsc]
Rsc(type, da, len) == [type |-> type, da |-> da, len |-> len]
Blob(size, magic, hlen, secs) ==
    [present |-> TRUE, size |-> size, magic |-> magic, header_len |-> hlen,
     secs |-> secs]

NoFw        == [present |-> FALSE, size |-> 0, magic |-> FALSE,
                header_len |-> 0, secs |-> <<>>]
ImgSmall    == Blob(8, TRUE, 0, <<>>)
ImgBadMagic == Blob(32, FALSE, 0, <<Sec(FW_DATA, 16, 4, <<>>)>>)
ImgData     == Blob(32, TRUE, 0, <<Sec(FW_DATA, 16, 4, <<>>)>>)
ImgTrunc    == Blob(31, TRUE, 0, <<Sec(FW_DATA, 16, 4, <<>>)>>)
ImgBadDa    == Blob(32, TRUE, 0, <<Sec(FW_TEXT, W32, 4, <<>>)>>)
ImgRsc      == Blob(12 + 16 + 2 * 76, TRUE, 0,
                    <<Sec(FW_RESOURCE, 32, 2 * 76,
                          <<Rsc(RSC_TRACE, 64, 8), Rsc(RSC_BOOTADDR, 128, 0)>>)>>)
ImgTrace3   == Blob(12 + 16 + 3 * 76, TRUE, 0,
                    <<Sec(FW_RESOURCE, 32, 3 * 76,
                          <<Rsc(RSC_TRACE, 64, 8), Rsc(RSC_TRACE, 72, 4),
                            Rsc(RSC_TRACE, 80, 4)>>)>>)
ImgTrace2   == Blob(12 + 16 + 2 * 76, TRUE, 0,
                    <<Sec(FW_RESOURCE, 32, 2 * 76,
                          <<Rsc(RSC_TRACE, 64, 8), Rsc(RSC_TRACE, 72, 4)>>)>>)
ImgRscTrunc == Blob(12 + 16 + 76 + 16 + 3, TRUE, 0,
                    <<Sec(FW_RESOURCE, 32, 76, <<Rsc(RSC_TRACE, 64, 8)>>),
                      Sec(FW_DATA, 16, 4, <<>>)>>)

Images == {NoFw, ImgSmall, ImgBadMagic, ImgData, ImgTrunc, ImgBadDa,
           ImgRsc, ImgTrace2, ImgTrace3, ImgRscTrunc}

\* the configurations rproc_register is called with
Names      == {"p0"}
\* the names rproc_get and rproc_unregister are called with
LookupNames == {"p0", "p1"}
Firmwares  == {TRUE, FALSE}      \* firmware != NULL
MapTables  == {NoMaps}

(* ------------------------------------------------------------------ *)
(* State                                                               *)
(* ------------------------------------------------------------------ *)
VARIABLES
    rprocs,    \* the list of registered records (LIST_HEAD(rprocs))
    rproc,     \* the struct rproc objects, by address; with each, the
               \* module pins taken for it and whether the core it stands
               \* for is powered on (ops->start) or off (ops->stop)
    thr,       \* the calling threads: position, rproc pointer, locals
    held,      \* per record, the handles rproc_get returned that were not
               \* yet passed to rproc_put (a handle is a plain pointer: any
               \* thread may put it)
    load,      \* the firmware workers: position, context, locals
    nasym,     \* calls of rproc_put made so far without a handle
    fn         \* the last direct call of a loader function: arguments, result

vars == <<rprocs, rproc, thr, held, load, nasym, fn>>

ZeroRec == [alloc |-> "unalloc", name |-> "", firmware |-> FALSE,
            memory_maps |-> NoMaps, count |-> 0, state |-> "OFFLINE",
            lock |-> 0, tr |-> NoTrace, done |-> "zeroed", pins |-> 0,
            core |-> "off"]

IdleThr  == [pc |-> "idle", rp |-> NULL, ret |-> "none", name |-> ""]
NoCall   == [op |-> "none"]
IdleLoad == [pc |-> "idle", rp |-> NULL, img |-> NoFw, idx |-> 0, left |-> 0,
             bootaddr |-> 0, ret |-> "none", start |-> "none"]

Init ==
    /\ rprocs = <<>>
    /\ rproc = [r \in RecIds |-> ZeroRec]
    /\ thr = [t \in Threads |-> IdleThr]
    /\ held = [r \in RecIds |-> 0]
    /\ load = [l \in LoadIds |-> IdleLoad]
    /\ nasym = 0
    /\ fn = NoCall

\* variant of the list walk that takes the first record whatever its name
FindFirst(list, name, i) == IF i > Len(list) THEN NULL ELSE list[i]

\* __find_rproc_by_name: the first record of the list with that name
RECURSIVE FindFrom(_, _, _)
FindFrom(list, name, i) ==
    IF i > Len(list) THEN NULL
    ELSE IF rproc[list[i]].name = name THEN list[i]
    ELSE FindFrom(list, name, i + 1)
find_rproc_by_name(name) == FindFrom(rprocs, name, 1)

\* A step that reads or writes record r.  After kfree(r) such a step is a
\* use of freed memory and its effect is undefined: the model has no step
\* for it, the actor stays where it is, and the state in which it is about
\* to touch the freed record is the state UseAfterFree describes.
Touch(r) == rproc[r].alloc = "live"

Returns(t, code) == thr' = [thr EXCEPT ![t] = [IdleThr EXCEPT !.pc = "ret", !.ret = code]]
Goto(t, pc) == thr' = [thr EXCEPT ![t].pc = pc]

(* ------------------------------------------------------------------ *)
(* rproc_register                                                      *)
(* ------------------------------------------------------------------ *)
\* kzalloc of a record, its initialisation and list_add_tail under
\* rprocs_lock; the record is private to the caller until it is linked
rproc_register(name, firmware, maps) ==
    \E r \in RecIds :
        /\ rproc[r].alloc = "unalloc"
        /\ \A q \in RecIds : q < r => rproc[q].alloc # "unalloc"
        /\ rproc' = [rproc EXCEPT ![r] =
                        [ZeroRec EXCEPT !.alloc = "live", !.name = name,
                                        !.firmware = firmware,
                                        !.memory_maps = maps,
                                        !.state = "OFFLINE"]]
        /\ rprocs' = Append(rprocs, r)
        /\ UNCHANGED <<thr, held, load, nasym, fn>>

(* ------------------------------------------------------------------ *)
(* rproc_get                                                           *)
(* ------------------------------------------------------------------ *)
\* the calls of rproc_get on record r that are under way and have not yet
\* pinned the owner; with the pins taken they bound the usage count
InGet(r) == Cardinality({t \in Threads : thr[t].rp = r
                                        /\ thr[t].pc \in {"get_lock", "get_count"}})

\* variant of GetFind that takes the record's lock inside the walk of the
\* list, with rprocs_lock still held
GetFindLocking(t, name) ==
    /\ thr[t].pc = "idle"
    /\ LET r == find_rproc_by_name(name) IN
       /\ r # NULL => rproc[r].pins + InGet(r) < MaxCount
       /\ IF r = NULL
          THEN /\ thr' = [thr EXCEPT ![t] = [IdleThr EXCEPT !.pc = "ret",
                                                 !.ret = "NULL", !.name = name]]
               /\ UNCHANGED rproc
          ELSE IF rproc[r].lock = 0
          THEN /\ thr' = [thr EXCEPT ![t] = [IdleThr EXCEPT !.pc = "get_count",
                                                 !.rp = r, !.name = name]]
               /\ rproc' = [rproc EXCEPT ![r].lock = t]
          ELSE /\ thr' = [thr EXCEPT ![t] = [IdleThr EXCEPT !.pc = "get_lock",
                                                 !.rp = r, !.name = name]]
               /\ UNCHANGED rproc
    /\ UNCHANGED <<rprocs, held, load, nasym, fn>>

\* __find_rproc_by_name(name); NULL: "can't find remote processor"
GetFind(t, name) ==
    /\ thr[t].pc = "idle"
    /\ LET r == find_rproc_by_name(name) IN
       /\ r # NULL => rproc[r].pins + InGet(r) < MaxCount
       /\ IF r = NULL
          THEN thr' = [thr EXCEPT ![t] = [IdleThr EXCEPT !.pc = "ret", !.ret = "NULL",
                                                         !.name = name]]
          ELSE thr' = [thr EXCEPT ![t] = [IdleThr EXCEPT !.pc = "get_lock", !.rp = r,
                                                         !.name = name]]
    /\ UNCHANGED <<rprocs, rproc, held, load, nasym, fn>>

\* mutex_lock_interruptible(&rproc->lock): taken when free; a waiter may be
\* interrupted by a signal, and rproc_get then returns NULL
GetLock(t) ==
    /\ thr[t].pc = "get_lock"
    /\ LET r == thr[t].rp IN
       /\ \/ /\ rproc[r].lock = 0
             /\ rproc' = [rproc EXCEPT ![r].lock = t]
             /\ Goto(t, "get_count")
          \/ /\ rproc[r].lock # 0
             /\ Returns(t, "NULL")
             /\ UNCHANGED rproc
       /\ Touch(r)
    /\ UNCHANGED <<rprocs, held, load, nasym, fn>>

\* variant of GetCount without the fast path: every caller re-initialises
GetCountNoFastPath(t, modOk) ==
    /\ thr[t].pc = "get_count"
    /\ LET r == thr[t].rp IN
       /\ IF ~modOk
          THEN /\ rproc' = [rproc EXCEPT ![r].lock = 0]
               /\ Returns(t, "NULL")
          ELSE /\ rproc' = [rproc EXCEPT ![r].pins = @ + 1, ![r].count = @ + 1]
               /\ Goto(t, "get_init")
       /\ Touch(r)
    /\ UNCHANGED <<rprocs, held, load, nasym, fn>>

\* variant of GetCount that starts a new load when the previous one failed
GetCountReloads(t, modOk) ==
    /\ thr[t].pc = "get_count"
    /\ LET r == thr[t].rp IN
       /\ IF ~modOk
          THEN /\ rproc' = [rproc EXCEPT ![r].lock = 0]
               /\ Returns(t, "NULL")
               /\ UNCHANGED held
          ELSE IF rproc[r].count # 0
                  /\ ~(rproc[r].state = "LOADING" /\ rproc[r].done = "done")
          THEN /\ rproc' = [rproc EXCEPT ![r].pins = @ + 1, ![r].count = @ + 1,
                                         ![r].lock = 0]
               /\ Returns(t, "rproc")
               /\ held' = [held EXCEPT ![r] = @ + 1]
          ELSE /\ rproc' = [rproc EXCEPT ![r].pins = @ + 1, ![r].count = @ + 1]
               /\ Goto(t, "get_init")
               /\ UNCHANGED held
       /\ Touch(r)
    /\ UNCHANGED <<rprocs, load, nasym, fn>>

\* try_module_get(rproc->owner), then if (rproc->count++) return rproc
GetCount(t, modOk) ==
    /\ thr[t].pc = "get_count"
    /\ LET r == thr[t].rp IN
       /\ IF ~modOk
          THEN /\ rproc' = [rproc EXCEPT ![r].lock = 0]
               /\ Returns(t, "NULL")
               /\ UNCHANGED held
               /\ Touch(r)
          ELSE IF rproc[r].count # 0
          THEN /\ rproc' = [rproc EXCEPT ![r].pins = @ + 1, ![r].count = @ + 1,
                                         ![r].lock = 0]
               /\ Returns(t, "rproc")
               /\ held' = [held EXCEPT ![r] = @ + 1]
               /\ Touch(r)
          ELSE /\ rproc' = [rproc EXCEPT ![r].pins = @ + 1, ![r].count = @ + 1]
               /\ Goto(t, "get_init")
               /\ UNCHANGED held
               /\ Touch(r)
    /\ UNCHANGED <<rprocs, load, nasym, fn>>

\* init_completion(), the firmware name check and request_firmware_nowait,
\* which fails (reqOk false) or hands the fetch to a worker
GetInit(t, reqOk) ==
    /\ thr[t].pc = "get_init"
    /\ LET r == thr[t].rp IN
       /\ rproc' = [rproc EXCEPT ![r].done = "pending"]
       /\ IF rproc[r].firmware /\ reqOk
          THEN /\ \E l \in LoadIds :
                    /\ load[l].pc = "idle"
                    /\ \A k \in LoadIds : k < l => load[k].pc # "idle"
                    /\ load' = [load EXCEPT ![l] =
                                   [IdleLoad EXCEPT !.pc = "fetch", !.rp = r]]
               /\ Goto(t, "get_state")
          ELSE /\ Goto(t, "get_deref")
               /\ UNCHANGED load
       /\ Touch(r)
    /\ UNCHANGED <<rprocs, held, nasym, fn>>

\* rproc->state = RPROC_LOADING; ret = rproc; mutex_unlock
GetState(t) ==
    /\ thr[t].pc = "get_state"
    /\ LET r == thr[t].rp IN
       /\ rproc' = [rproc EXCEPT ![r].state = "LOADING", ![r].lock = 0]
       /\ Returns(t, "rproc")
       /\ held' = [held EXCEPT ![r] = @ + 1]
       /\ Touch(r)
    /\ UNCHANGED <<rprocs, load, nasym, fn>>

\* deref_rproc: complete_all(&rproc->firmware_loading_complete)
GetDeref(t) ==
    /\ thr[t].pc = "get_deref"
    /\ LET r == thr[t].rp IN
       /\ rproc' = [rproc EXCEPT ![r].done = "done"]
       /\ Goto(t, "get_deref2")
       /\ Touch(r)
    /\ UNCHANGED <<rprocs, held, load, nasym, fn>>

\* variant of GetDeref2 that keeps the count it took
GetDeref2NoDec(t) ==
    /\ thr[t].pc = "get_deref2"
    /\ LET r == thr[t].rp IN
       /\ rproc' = [rproc EXCEPT ![r].pins = @ - 1, ![r].lock = 0]
       /\ Returns(t, "NULL")
       /\ Touch(r)
    /\ UNCHANGED <<rprocs, held, load, nasym, fn>>

\* module_put(rproc->owner); --rproc->count; mutex_unlock; return NULL
GetDeref2(t) ==
    /\ thr[t].pc = "get_deref2"
    /\ LET r == thr[t].rp IN
       /\ rproc' = [rproc EXCEPT ![r].pins = @ - 1, ![r].count = @ - 1,
                                 ![r].lock = 0]
       /\ Returns(t, "NULL")
       /\ Touch(r)
    /\ UNCHANGED <<rprocs, held, load, nasym, fn>>

\* the call returns to its caller
Return(t) ==
    /\ thr[t].pc = "ret"
    /\ thr' = [thr EXCEPT ![t] = IdleThr]
    /\ UNCHANGED <<rprocs, rproc, held, load, nasym, fn>>

rproc_get(t) ==
    \/ \E name \in LookupNames : GetFind(t, name)
    \/ GetLock(t)
    \/ \E modOk \in BOOLEAN : GetCount(t, modOk)
    \/ \E reqOk \in BOOLEAN : GetInit(t, reqOk)
    \/ GetState(t)
    \/ GetDeref(t)
    \/ GetDeref2(t)

(* ------------------------------------------------------------------ *)
(* rproc_put                                                           *)
(* ------------------------------------------------------------------ *)
\* a holder of a handle calls rproc_put(rproc)
PutCall(t, r) ==
    /\ thr[t].pc = "idle"
    /\ held[r] > 0
    /\ held' = [held EXCEPT ![r] = @ - 1]
    /\ thr' = [thr EXCEPT ![t] = [IdleThr EXCEPT !.pc = "put_check", !.rp = r]]
    /\ UNCHANGED <<rprocs, rproc, load, nasym, fn>>

\* rproc_put(rproc) by a caller that holds no handle ("calling rproc_put()
\* redundantly is a bug")
PutCallAsym(t, r) ==
    /\ thr[t].pc = "idle"
    /\ rproc[r].alloc # "unalloc"
    /\ held[r] = 0
    /\ nasym < MaxAsym
    /\ nasym' = nasym + 1
    /\ thr' = [thr EXCEPT ![t] = [IdleThr EXCEPT !.pc = "put_check", !.rp = r]]
    /\ UNCHANGED <<rprocs, rproc, held, load, fn>>

\* if (!rproc->count) { ret = -EINVAL; goto out; } read without the lock;
\* out: mutex_unlock(&rproc->lock); if (!ret) module_put()
PutCheck(t) ==
    /\ thr[t].pc = "put_check"
    /\ LET r == thr[t].rp IN
       /\ IF rproc[r].count = 0
          THEN /\ rproc' = [rproc EXCEPT ![r].lock = 0]
               /\ Returns(t, "EINVAL")
               /\ Touch(r)
          ELSE /\ Goto(t, "put_wait")
               /\ UNCHANGED rproc
               /\ Touch(r)
    /\ UNCHANGED <<rprocs, held, load, nasym, fn>>

\* variant of PutWait that does not wait for the completion
PutWaitNoWait(t) ==
    /\ thr[t].pc = "put_wait"
    /\ Goto(t, "put_lock")
    /\ Touch(thr[t].rp)
    /\ UNCHANGED <<rprocs, rproc, held, load, nasym, fn>>

\* wait_for_completion(&rproc->firmware_loading_complete); a completion
\* that was never initialised (kzalloc'ed memory) is waited on undefinedly
PutWait(t) ==
    /\ thr[t].pc = "put_wait"
    /\ LET r == thr[t].rp IN
       /\ rproc[r].done # "pending"
       /\ Goto(t, "put_lock")
       /\ Touch(r)
    /\ UNCHANGED <<rprocs, rproc, held, load, nasym, fn>>

\* mutex_lock_interruptible(&rproc->lock); interrupted: return
PutLock(t) ==
    /\ thr[t].pc = "put_lock"
    /\ LET r == thr[t].rp IN
       /\ \/ /\ rproc[r].lock = 0
             /\ rproc' = [rproc EXCEPT ![r].lock = t]
             /\ Goto(t, "put_dec")
          \/ /\ rproc[r].lock # 0
             /\ Returns(t, "EINTR")
             /\ UNCHANGED rproc
       /\ Touch(r)
    /\ UNCHANGED <<rprocs, held, load, nasym, fn>>

\* variant of PutDec that releases the owner only on the last put
PutDecLastOnly(t) ==
    /\ thr[t].pc = "put_dec"
    /\ LET r   == thr[t].rp
           rec == rproc[r]
           cleared == [rec.tr EXCEPT !.b0 = "null", !.b1 = "null"]
       IN
       IF rec.count - 1 # 0
       THEN /\ rproc' = [rproc EXCEPT ![r].count = @ - 1, ![r].lock = 0]
            /\ Returns(t, "void")
            /\ Touch(r)
       ELSE IF rec.state = "RUNNING"
       THEN /\ rproc' = [rproc EXCEPT ![r].count = @ - 1, ![r].tr = cleared]
            /\ Goto(t, "put_stop")
            /\ Touch(r)
       ELSE /\ rproc' = [rproc EXCEPT ![r].count = @ - 1, ![r].tr = cleared,
                                      ![r].state = "OFFLINE", ![r].lock = 0,
                                      ![r].pins = @ - 1]
            /\ Returns(t, "void")
            /\ Touch(r)
    /\ UNCHANGED <<rprocs, held, load, nasym, fn>>

\* variant of PutDec that writes RPROC_OFFLINE on every put
PutDecAlwaysOffline(t) ==
    /\ thr[t].pc = "put_dec"
    /\ LET r   == thr[t].rp
           rec == rproc[r]
           cleared == [rec.tr EXCEPT !.b0 = "null", !.b1 = "null"]
       IN
       IF rec.count - 1 # 0
       THEN /\ rproc' = [rproc EXCEPT ![r].count = @ - 1, ![r].lock = 0,
                                      ![r].pins = @ - 1, ![r].state = "OFFLINE"]
            /\ Returns(t, "void")
            /\ Touch(r)
       ELSE IF rec.state = "RUNNING"
       THEN /\ rproc' = [rproc EXCEPT ![r].count = @ - 1, ![r].tr = cleared]
            /\ Goto(t, "put_stop")
            /\ Touch(r)
       ELSE /\ rproc' = [rproc EXCEPT ![r].count = @ - 1, ![r].tr = cleared,
                                      ![r].state = "OFFLINE", ![r].lock = 0,
                                      ![r].pins = @ - 1]
            /\ Returns(t, "void")
            /\ Touch(r)
    /\ UNCHANGED <<rprocs, held, load, nasym, fn>>

\* variant of PutDec that leaves the trace pointers as they are
PutDecKeepsTrace(t) ==
    /\ thr[t].pc = "put_dec"
    /\ LET r   == thr[t].rp
           rec == rproc[r]
           cleared == rec.tr
       IN
       IF rec.count - 1 # 0
       THEN /\ rproc' = [rproc EXCEPT ![r].count = @ - 1, ![r].lock = 0,
                                      ![r].pins = @ - 1]
            /\ Returns(t, "void")
            /\ Touch(r)
       ELSE IF rec.state = "RUNNING"
       THEN /\ rproc' = [rproc EXCEPT ![r].count = @ - 1, ![r].tr = cleared]
            /\ Goto(t, "put_stop")
            /\ Touch(r)
       ELSE /\ rproc' = [rproc EXCEPT ![r].count = @ - 1, ![r].tr = cleared,
                                      ![r].state = "OFFLINE", ![r].lock = 0,
                                      ![r].pins = @ - 1]
            /\ Returns(t, "void")
            /\ Touch(r)
    /\ UNCHANGED <<rprocs, held, load, nasym, fn>>

\* if (--rproc->count) goto out; else the trace buffers are unmapped, the
\* pointers cleared, and unless the state is RUNNING the state becomes
\* OFFLINE; out: mutex_unlock, module_put (ret is 0)
PutDec(t) ==
    /\ thr[t].pc = "put_dec"
    /\ LET r   == thr[t].rp
           rec == rproc[r]
           cleared == [rec.tr EXCEPT !.b0 = "null", !.b1 = "null"]
       IN
       IF rec.count - 1 # 0
       THEN /\ rproc' = [rproc EXCEPT ![r].count = @ - 1, ![r].lock = 0,
                                      ![r].pins = @ - 1]
            /\ Returns(t, "void")
            /\ Touch(r)
       ELSE IF rec.state = "RUNNING"
       THEN /\ rproc' = [rproc EXCEPT ![r].count = @ - 1, ![r].tr = cleared]
            /\ Goto(t, "put_stop")
            /\ Touch(r)
       ELSE /\ rproc' = [rproc EXCEPT ![r].count = @ - 1, ![r].tr = cleared,
                                      ![r].state = "OFFLINE", ![r].lock = 0,
                                      ![r].pins = @ - 1]
            /\ Returns(t, "void")
            /\ Touch(r)
    /\ UNCHANGED <<rprocs, held, load, nasym, fn>>

\* ret = rproc->ops->stop(rproc); on failure goto out, else the state
\* becomes OFFLINE; out: mutex_unlock; if (!ret) module_put
PutStop(t, stopOk) ==
    /\ thr[t].pc = "put_stop"
    /\ LET r == thr[t].rp IN
       /\ IF stopOk
          THEN /\ rproc' = [rproc EXCEPT ![r].state = "OFFLINE", ![r].lock = 0,
                                         ![r].pins = @ - 1, ![r].core = "off"]
               /\ Returns(t, "void")
          ELSE /\ rproc' = [rproc EXCEPT ![r].lock = 0]
               /\ Returns(t, "stop_failed")
       /\ Touch(r)
    /\ UNCHANGED <<rprocs, held, load, nasym, fn>>

rproc_put(t) ==
    \/ \E r \in RecIds : PutCall(t, r)
    \/ PutCheck(t)
    \/ PutWait(t)
    \/ PutLock(t)
    \/ PutDec(t)
    \/ \E stopOk \in BOOLEAN : PutStop(t, stopOk)

(* ------------------------------------------------------------------ *)
(* rproc_unregister                                                    *)
(* ------------------------------------------------------------------ *)
\* __find_rproc_by_name(name); NULL: return -EINVAL
UnregFind(t, name) ==
    /\ thr[t].pc = "idle"
    /\ LET r == find_rproc_by_name(name) IN
       IF r = NULL
       THEN thr' = [thr EXCEPT ![t] = [IdleThr EXCEPT !.pc = "ret", !.ret = "EINVAL",
                                                      !.name = name]]
       ELSE thr' = [thr EXCEPT ![t] = [IdleThr EXCEPT !.pc = "unreg_del", !.rp = r,
                                                      !.name = name]]
    /\ UNCHANGED <<rprocs, rproc, held, load, nasym, fn>>

\* debugfs_remove_recursive; list_del under rprocs_lock; kfree(rproc)
UnregDel(t) ==
    /\ thr[t].pc = "unreg_del"
    /\ LET r == thr[t].rp IN
       /\ rprocs' = SelectSeq(rprocs, LAMBDA x : x # r)
       /\ rproc' = [rproc EXCEPT ![r].alloc = "freed"]
       /\ Returns(t, "0")
       /\ Touch(r)
    /\ UNCHANGED <<held, load, nasym, fn>>

rproc_unregister(t) ==
    \/ \E name \in LookupNames : UnregFind(t, name)
    \/ UnregDel(t)

(* ------------------------------------------------------------------ *)
(* rproc_load_fw, the callback of request_firmware_nowait              *)
(* ------------------------------------------------------------------ *)
\* variant of LoadFetch that ends without complete_all when the blob is absent
LoadFetchSilent(l, fw) ==
    /\ load[l].pc = "fetch"
    /\ IF ~fw.present
       THEN load' = [load EXCEPT ![l] = IdleLoad]
       ELSE IF fw.size < SIZEOF_FW_HEADER
       THEN load' = [load EXCEPT ![l].pc = "complete", ![l].ret = "TOOSMALL"]
       ELSE IF ~fw.magic
       THEN load' = [load EXCEPT ![l].pc = "complete", ![l].ret = "BADMAGIC"]
       ELSE load' = [load EXCEPT ![l].pc = "process", ![l].img = fw,
                                 ![l].idx = 1,
                                 ![l].left = U32(fw.size - SIZEOF_FW_HEADER
                                                 - fw.header_len)]
    /\ Touch(load[l].rp)
    /\ UNCHANGED <<rprocs, rproc, thr, held, nasym, fn>>

\* The fetch ends and the callback starts with blob fw: if (!fw) goto
\* complete_fw; the size and magic checks (goto out); else section points
\* behind the text header and left = fw->size - sizeof(header) - header_len
LoadFetch(l, fw) ==
    /\ load[l].pc = "fetch"
    /\ LET r == load[l].rp IN
       /\ IF ~fw.present
          THEN load' = [load EXCEPT ![l].pc = "complete", ![l].ret = "ENOENT"]
          ELSE IF fw.size < SIZEOF_FW_HEADER
          THEN load' = [load EXCEPT ![l].pc = "complete", ![l].ret = "TOOSMALL"]
          ELSE IF ~fw.magic
          THEN load' = [load EXCEPT ![l].pc = "complete", ![l].ret = "BADMAGIC"]
          ELSE load' = [load EXCEPT ![l].pc = "process", ![l].img = fw,
                                    ![l].idx = 1,
                                    ![l].left = U32(fw.size - SIZEOF_FW_HEADER
                                                    - fw.header_len)]
       /\ Touch(r)
    /\ UNCHANGED <<rprocs, rproc, thr, held, nasym, fn>>

\* rproc_process_fw: the test of the while loop and one iteration of it
LoadSection(l, ioOk, failAt) ==
    /\ load[l].pc = "process"
    /\ LET r  == load[l].rp
           ld == load[l]
       IN
       IF ~(ld.left > SIZEOF_FW_SECTION) \/ ld.idx > Len(ld.img.secs)
       THEN /\ ioOk /\ failAt = 0
            /\ load' = [load EXCEPT ![l] = [IdleLoad EXCEPT
                                   !.pc = "start_lock", !.rp = r, !.ret = "OK",
                                   !.bootaddr = ld.bootaddr]]
            /\ UNCHANGED rproc
            /\ Touch(r)
       ELSE LET sec == ld.img.secs[ld.idx]
                res == process_section(rproc[r].memory_maps, rproc[r].tr, sec,
                                       ld.left, ld.bootaddr, ioOk, failAt)
            IN
            /\ failAt <= NTrace(sec.rsc)
            /\ rproc' = [rproc EXCEPT ![r].tr = res.tr]
            /\ IF res.ret = "OK"
               THEN load' = [load EXCEPT ![l].idx = @ + 1, ![l].left = res.left,
                                         ![l].bootaddr = res.bootaddr]
               ELSE load' = [load EXCEPT ![l] = [IdleLoad EXCEPT
                                   !.pc = "complete", !.rp = r, !.ret = res.ret]]
            /\ Touch(r)
    /\ UNCHANGED <<rprocs, thr, held, nasym, fn>>

\* variant of LoadStartLock that goes on to ops->start without the lock
LoadStartLockNoLock(l) ==
    /\ load[l].pc = "start_lock"
    /\ load' = [load EXCEPT ![l].pc = "start"]
    /\ Touch(load[l].rp)
    /\ UNCHANGED <<rprocs, rproc, thr, held, nasym, fn>>

\* rproc_start: mutex_lock_interruptible(&rproc->lock); interrupted: return
LoadStartLock(l) ==
    /\ load[l].pc = "start_lock"
    /\ LET r == load[l].rp IN
       /\ \/ /\ rproc[r].lock = 0
             /\ rproc' = [rproc EXCEPT ![r].lock = -l]
             /\ load' = [load EXCEPT ![l].pc = "start"]
          \/ /\ rproc[r].lock # 0
             /\ load' = [load EXCEPT ![l].pc = "complete", ![l].start = "EINTR"]
             /\ UNCHANGED rproc
       /\ Touch(r)
    /\ UNCHANGED <<rprocs, thr, held, nasym, fn>>

\* variant of LoadStart that writes RPROC_OFFLINE when ops->start fails
LoadStartFailOffline(l, startOk) ==
    /\ load[l].pc = "start"
    /\ LET r == load[l].rp IN
       /\ IF startOk
          THEN /\ rproc' = [rproc EXCEPT ![r].state = "RUNNING", ![r].lock = 0,
                                         ![r].core = "on"]
               /\ load' = [load EXCEPT ![l].pc = "complete", ![l].start = "ok"]
          ELSE /\ rproc' = [rproc EXCEPT ![r].state = "OFFLINE", ![r].lock = 0]
               /\ load' = [load EXCEPT ![l].pc = "complete", ![l].start = "failed"]
       /\ Touch(r)
    /\ UNCHANGED <<rprocs, thr, held, nasym, fn>>

\* variant of LoadStart that writes RPROC_RUNNING whatever ops->start returns
LoadStartAlwaysRunning(l, startOk) ==
    /\ load[l].pc = "start"
    /\ LET r == load[l].rp IN
       /\ rproc' = [rproc EXCEPT ![r].state = "RUNNING", ![r].lock = 0,
                                 ![r].core = IF startOk THEN "on" ELSE @]
       /\ load' = [load EXCEPT ![l].pc = "complete",
                               ![l].start = IF startOk THEN "ok" ELSE "failed"]
       /\ Touch(r)
    /\ UNCHANGED <<rprocs, thr, held, nasym, fn>>

\* variant of LoadStart that hands ops->start the address 0
LoadStartZeroBoot(l, startOk) ==
    /\ load[l].pc = "start"
    /\ LET r == load[l].rp IN
       /\ IF startOk
          THEN /\ rproc' = [rproc EXCEPT ![r].state = "RUNNING", ![r].lock = 0,
                                         ![r].core = "on"]
               /\ load' = [load EXCEPT ![l].pc = "complete", ![l].start = "ok",
                                       ![l].bootaddr = 0]
          ELSE /\ rproc' = [rproc EXCEPT ![r].lock = 0]
               /\ load' = [load EXCEPT ![l].pc = "complete", ![l].start = "failed",
                                       ![l].bootaddr = 0]
       /\ Touch(r)
    /\ UNCHANGED <<rprocs, thr, held, nasym, fn>>

\* rproc_start: err = rproc->ops->start(rproc, bootaddr); on success
\* rproc->state = RPROC_RUNNING; mutex_unlock
LoadStart(l, startOk) ==
    /\ load[l].pc = "start"
    /\ LET r == load[l].rp IN
       /\ IF startOk
          THEN /\ rproc' = [rproc EXCEPT ![r].state = "RUNNING", ![r].lock = 0,
                                         ![r].core = "on"]
               /\ load' = [load EXCEPT ![l].pc = "complete", ![l].start = "ok"]
          ELSE /\ rproc' = [rproc EXCEPT ![r].lock = 0]
               /\ load' = [load EXCEPT ![l].pc = "complete", ![l].start = "failed"]
       /\ Touch(r)
    /\ UNCHANGED <<rprocs, thr, held, nasym, fn>>

\* variant of LoadComplete that rewinds the record when the load failed
LoadCompleteRewinding(l) ==
    /\ load[l].pc = "complete"
    /\ LET r == load[l].rp IN
       /\ IF load[l].ret # "OK"
          THEN rproc' = [rproc EXCEPT ![r].done = "done", ![r].count = 0,
                                      ![r].state = "OFFLINE",
                                      ![r].tr = [@ EXCEPT !.b0 = "null",
                                                          !.b1 = "null"]]
          ELSE rproc' = [rproc EXCEPT ![r].done = "done"]
       /\ load' = [load EXCEPT ![l] = IdleLoad]
       /\ Touch(r)
    /\ UNCHANGED <<rprocs, thr, held, nasym, fn>>

\* out: release_firmware(fw); complete_fw: complete_all(); the worker ends
LoadComplete(l) ==
    /\ load[l].pc = "complete"
    /\ LET r == load[l].rp IN
       /\ rproc' = [rproc EXCEPT ![r].done = "done"]
       /\ load' = [load EXCEPT ![l] = IdleLoad]
       /\ Touch(r)
    /\ UNCHANGED <<rprocs, thr, held, nasym, fn>>

rproc_load_fw(l) ==
    \/ \E fw \in Images : LoadFetch(l, fw)
    \/ \E ioOk \in BOOLEAN, failAt \in 0..3 : LoadSection(l, ioOk, failAt)
    \/ LoadStartLock(l)
    \/ \E startOk \in BOOLEAN : LoadStart(l, startOk)
    \/ LoadComplete(l)

(* ------------------------------------------------------------------ *)
(* The system                                                          *)
(* ------------------------------------------------------------------ *)
\* the records allocated so far
Allocated == {r \in RecIds : rproc[r].alloc # "unalloc"}

RegisterAny ==
    \E name \in Names, firmware \in Firmwares, maps \in MapTables :
        rproc_register(name, firmware, maps)

\* the platform code registers MaxRecs processors
Register ==
    /\ Cardinality(Allocated) < MaxRecs
    /\ RegisterAny

\* callers keep the protocol of rproc_put: every put gives back a handle
Next ==
    \/ Register
    \/ \E t \in Threads : rproc_get(t) \/ rproc_put(t) \/ rproc_unregister(t)
                          \/ Return(t)
    \/ \E l \in LoadIds : rproc_load_fw(l)

Spec == Init /\ [][Next]_vars

\* the users of the processors only: no record is unregistered
NextUse ==
    \/ Register
    \/ \E t \in Threads : rproc_get(t) \/ rproc_put(t) \/ Return(t)
    \/ \E l \in LoadIds : rproc_load_fw(l)

\* callers may also call rproc_put without holding a handle
NextAsym ==
    \/ NextUse
    \/ \E t \in Threads, r \in RecIds : PutCallAsym(t, r)

SpecAsym == Init /\ [][NextAsym]_vars

\* the registry alone: rproc_register and rproc_unregister, called for up
\* to MaxRecs + MaxDup records
NextReg ==
    \/ RegisterAny
    \/ \E t \in Threads : rproc_unregister(t) \/ Return(t)

SpecReg == Init /\ [][NextReg]_vars

\* the steps of a call of rproc_get or rproc_put that is under way
InCall(t) ==
    \/ GetLock(t)
    \/ \E modOk \in BOOLEAN : GetCount(t, modOk)
    \/ \E reqOk \in BOOLEAN : GetInit(t, reqOk)
    \/ GetState(t)
    \/ GetDeref(t)
    \/ GetDeref2(t)
    \/ PutCheck(t)
    \/ PutWait(t)
    \/ PutLock(t)
    \/ PutDec(t)
    \/ \E stopOk \in BOOLEAN : PutStop(t, stopOk)

\* a call that can take a step is scheduled, the firmware callback runs
\* and the backend calls return
FairSpec ==
    /\ Init /\ [][NextUse]_vars
    /\ \A t \in Threads : WF_vars(InCall(t))
    /\ \A l \in LoadIds : WF_vars(rproc_load_fw(l))

(* ------------------------------------------------------------------ *)
(* Vocabulary of the properties                                        *)
(* ------------------------------------------------------------------ *)
Live(r) == rproc[r].alloc = "live"

\* a firmware callback for record r has been requested and has not yet
\* raised the completion
LoadInFlight(r) == \E l \in LoadIds : load[l].pc # "idle" /\ load[l].rp = r

\* worker l is about to raise the completion of a load that failed before
\* rproc_start was reached
FailedBeforeStart(l) == load[l].pc = "complete" /\ load[l].ret # "OK"

\* the step in which worker l raises the completion
Signals(l) == load[l].pc = "complete" /\ load'[l].pc = "idle"

NoTraceBound(r) == rproc[r].tr.b0 = "null" /\ rproc[r].tr.b1 = "null"

\* no call and no callback is under way
Quiescent == /\ \A t \in Threads : thr[t].pc \in {"idle", "ret"}
             /\ \A l \in LoadIds : load[l].pc = "idle"

\* a thread stands before a step on a record that was freed
UseAfterFree ==
    \/ \E t \in Threads : thr[t].rp # NULL /\ rproc[thr[t].rp].alloc = "freed"
    \/ \E l \in LoadIds : load[l].rp # NULL /\ rproc[load[l].rp].alloc = "freed"

C2_UnregisterBusy ==
    [][\A t \in Threads :
         (thr[t].pc = "unreg_del" /\ thr'[t].pc # "unreg_del"
            /\ rproc[thr[t].rp].count > 0)
         => /\ rprocs' = rprocs
            /\ rproc' = rproc
            /\ thr'[t].ret = "EBUSY"]_vars

\* the record was freed by rproc_unregister while a handle on it is held
C2_Witness ==
    \E r \in RecIds : rproc[r].alloc = "freed" /\ held[r] > 0

(* ------------------------------------------------------------------ *)
(* C3                                                                  *)
(* ------------------------------------------------------------------ *)
\* C3: a put is past wait_for_completion (and so may decrement, unmap the
\* trace buffers, stop the processor or change the state) only when no
\* firmware callback of its processor is running, and the completion of a
\* load stays pending for as long as its callback runs.
C3_PutAfterCompletion ==
    \A r \in RecIds : Live(r) =>
        /\ (LoadInFlight(r) => rproc[r].done = "pending")
        /\ \A t \in Threads :
              (thr[t].rp = r /\ thr[t].pc \in {"put_lock", "put_dec", "put_stop"})
              => ~LoadInFlight(r)

\* a put waits for the completion while the callback of its processor runs
C3_Witness ==
    \E t \in Threads, l \in LoadIds :
        /\ thr[t].pc = "put_wait" /\ load[l].pc = "process"
        /\ load[l].rp = thr[t].rp /\ Live(thr[t].rp)

(* ------------------------------------------------------------------ *)
(* C4                                                                  *)
(* ------------------------------------------------------------------ *)
\* C4: whenever no operation is in progress, a processor whose refcount is 0
\* is OFFLINE (or CRASHED).
C4_ZeroCountOffline ==
    Quiescent =>
        \A r \in RecIds :
            (Live(r) /\ rproc[r].count = 0) => rproc[r].state \in {"OFFLINE", "CRASHED"}

(* ------------------------------------------------------------------ *)
(* C5                                                                  *)
(* ------------------------------------------------------------------ *)
\* C5: the put that called backend.stop ends with the state
\* OFFLINE, also when backend.stop failed.
C5_StopFailureOffline ==
    [][\A t \in Threads :
         (thr[t].pc = "put_stop" /\ thr'[t].pc = "ret")
         => rproc'[thr[t].rp].state = "OFFLINE"]_vars

\* a put returned after backend.stop failed: RUNNING with refcount 0
C5_Witness ==
    \E t \in Threads, r \in RecIds :
        /\ thr[t].pc = "ret" /\ thr[t].ret = "stop_failed"
        /\ Live(r) /\ rproc[r].state = "RUNNING" /\ rproc[r].count = 0

(* ------------------------------------------------------------------ *)
(* C6                                                                  *)
(* ------------------------------------------------------------------ *)
PutPcs == {"put_check", "put_wait", "put_lock", "put_dec", "put_stop"}

\* thread t is inside rproc_put on a record that has not been freed
InPut(t) == thr[t].pc \in PutPcs /\ Live(thr[t].rp)

\* worker l runs the callback of a record that has not been freed
InLoad(l) == load[l].pc # "idle" /\ Live(load[l].rp)

\* C6: every firmware callback ends by raising the completion, whatever
\* path it takes, and so every rproc_put of a holder of a handle returns.
C6_PutReturns ==
    /\ \A l \in LoadIds : InLoad(l) ~> ~InLoad(l)
    /\ \A t \in Threads : InPut(t) ~> ~InPut(t)
    /\ [][\A l \in LoadIds :
            (load[l].pc # "idle" /\ load'[l].pc = "idle")
            => rproc'[load[l].rp].done = "done"]_vars

\* a put waits for the completion of a load whose blob is about to be
\* found absent, too small, or well formed
C6_Witness ==
    \E t \in Threads, l \in LoadIds :
        /\ thr[t].pc = "put_wait" /\ load[l].pc = "fetch"
        /\ load[l].rp = thr[t].rp /\ Live(thr[t].rp)
        /\ rproc[thr[t].rp].done = "pending"

(* ------------------------------------------------------------------ *)
(* C7                                                                  *)
(* ------------------------------------------------------------------ *)
\* C7: the refcount of every processor is >= 0 in every reachable state,
\* also when puts are not matched by a get and run concurrently.
C7_CountNonNegative ==
    \A r \in RecIds : rproc[r].count >= 0

(* ------------------------------------------------------------------ *)
(* C8                                                                  *)
(* ------------------------------------------------------------------ *)
\* C8: a rproc_get that succeeds requests the firmware and writes LOADING
\* if and only if the refcount was 0 when it took the lock; with a refcount
\* > 0 it only increments the refcount (and pins the owner), and returns
\* the handle with no request, no init_completion and no state change.
C8_FirstUserIffZero ==
    [][\A t \in Threads :
         LET r == thr[t].rp IN
         /\ (thr[t].pc = "get_count" /\ thr'[t].pc = "get_init")
            => rproc[r].count = 0
         /\ (thr[t].pc = "get_count" /\ thr'[t].pc = "ret"
               /\ thr'[t].ret = "rproc")
            => /\ rproc[r].count > 0
               /\ rproc' = [rproc EXCEPT ![r].count = @ + 1, ![r].pins = @ + 1,
                                         ![r].lock = 0]
               /\ load' = load
         /\ (thr[t].pc = "get_init" /\ thr'[t].pc = "get_state")
            => /\ rproc[r].count = 1
               /\ rproc'[r].done = "pending"
               /\ \E l \in LoadIds : /\ load[l].pc = "idle"
                                      /\ load'[l].pc = "fetch"
                                      /\ load'[l].rp = r
         /\ (thr[t].pc = "get_state" /\ thr'[t].pc # "get_state")
            => /\ thr'[t].pc = "ret" /\ thr'[t].ret = "rproc"
               /\ rproc'[r].state = "LOADING"
               /\ rproc'[r].count = 1
         /\ (thr[t].pc # "ret" /\ thr'[t].pc = "ret" /\ thr'[t].ret = "rproc")
            => thr[t].pc \in {"get_count", "get_state"}
         /\ (thr[t].pc # "get_state" /\ thr'[t].pc = "get_state")
            => thr[t].pc = "get_init"
         /\ (thr[t].pc # "get_init" /\ thr'[t].pc = "get_init")
            => thr[t].pc = "get_count"]_vars

\* a second rproc_get returned on the fast path while the load requested
\* by the first is still in flight
C8_Witness ==
    \E t \in Threads, r \in RecIds :
        /\ thr[t].pc = "ret" /\ thr[t].ret = "rproc"
        /\ Live(r) /\ rproc[r].count = 2 /\ held[r] = 2
        /\ rproc[r].state = "LOADING" /\ LoadInFlight(r)

(* ------------------------------------------------------------------ *)
(* C9                                                                  *)
(* ------------------------------------------------------------------ *)
\* C9: the rproc_put of a sole user that takes the refcount from 1 to 0
\* returns with the state OFFLINE and no trace buffer bound.
C9_SoleUserRestores ==
    [][\A t \in Threads :
         (thr[t].pc \in {"put_dec", "put_stop"} /\ thr'[t].pc = "ret"
            /\ held[thr[t].rp] = 0 /\ rproc'[thr[t].rp].count = 0)
         => /\ rproc'[thr[t].rp].state = "OFFLINE"
            /\ rproc'[thr[t].rp].tr.b0 = "null"
            /\ rproc'[thr[t].rp].tr.b1 = "null"]_vars

(* ------------------------------------------------------------------ *)
(* C10                                                                 *)
(* ------------------------------------------------------------------ *)
\* the load of record r failed and raised the completion, and the handle
\* of its acquirer has not been given back since
FailedLoadSignalled(r) ==
    /\ rproc[r].state = "LOADING" /\ rproc[r].done = "done"
    /\ rproc[r].count >= 1
    /\ ~LoadInFlight(r)

C12_RunningAtSignal ==
    [][\A l \in LoadIds :
         LET r == load[l].rp IN
         /\ (load[l].pc = "start" /\ load'[l].start = "ok")
            => /\ rproc[r].state = "LOADING"
               /\ rproc'[r].state = "RUNNING"
         /\ (Signals(l) /\ load[l].start = "ok")
            => /\ load[l].ret = "OK"
               /\ rproc[r].state = "RUNNING"
               /\ rproc'[r].state = "RUNNING"]_vars

\* the callback started the processor and is about to raise the completion
\* while a second rproc_get has already returned on the fast path
C12_Witness ==
    \E l \in LoadIds :
        /\ load[l].pc = "complete" /\ load[l].start = "ok"
        /\ Live(load[l].rp) /\ rproc[load[l].rp].state = "RUNNING"
        /\ rproc[load[l].rp].count = 2 /\ held[load[l].rp] = 2

(* ------------------------------------------------------------------ *)
(* C13                                                                 *)
(* ------------------------------------------------------------------ *)
\* C13: rproc_put on a record whose refcount is 0 reports the asymmetric
\* put and does nothing else: no field of the record changes, its lock
\* included, and no callback is touched.
C13_AsymmetricPutNoEffect ==
    [][\A t \in Threads :
         (thr[t].pc = "put_check" /\ thr'[t].pc # "put_check"
            /\ rproc[thr[t].rp].count = 0)
         => /\ thr'[t].pc = "ret" /\ thr'[t].ret = "EINVAL"
            /\ rproc' = rproc
            /\ load' = load]_vars

\* a rproc_get is between mutex_lock_interruptible and mutex_unlock, and
\* the lock it took has been released by an asymmetric rproc_put
C13_Witness ==
    \E t \in Threads :
        /\ thr[t].pc \in {"get_count", "get_init", "get_state", "get_deref",
                           "get_deref2"}
        /\ Live(thr[t].rp)
        /\ rproc[thr[t].rp].lock # t

(* ------------------------------------------------------------------ *)
(* C14                                                                 *)
(* ------------------------------------------------------------------ *)
\* C14: no two records of the registry have the same name (a registration
\* under a name that is already registered is rejected).
C14_NamesUnique ==
    \A i, j \in 1..Len(rprocs) :
        i # j => rproc[rprocs[i]].name # rproc[rprocs[j]].name

(* ------------------------------------------------------------------ *)
(* C15                                                                 *)
(* ------------------------------------------------------------------ *)
\* C15: a record is freed only with refcount 0, and no call and no callback
\* is about to read or write a record that rproc_unregister has freed.
C15_NoUseAfterFree ==
    /\ \A r \in RecIds : rproc[r].alloc = "freed" => rproc[r].count = 0
    /\ ~UseAfterFree

\* a rproc_get found the record by name and is about to lock it, and
\* rproc_unregister has freed the record in between
C15_Witness ==
    \E t \in Threads :
        /\ thr[t].pc = "get_lock"
        /\ rproc[thr[t].rp].alloc = "freed"

(* ------------------------------------------------------------------ *)
(* C16                                                                 *)
(* ------------------------------------------------------------------ *)
\* no record of the registry has this name
Absent(name) == \A i \in 1..Len(rprocs) : rproc[rprocs[i]].name # name

SameUse(r) ==
    /\ rproc'[r].count = rproc[r].count
    /\ rproc'[r].state = rproc[r].state
    /\ rproc'[r].pins = rproc[r].pins

\* C17: a rproc_get that returns NULL leaves refcount, state and module
\* pins as they were before the call and requests no firmware: the
\* interrupted lock and the failed try_module_get change none of them, and
\* the first-user path that fails (no firmware name, request rejected)
\* gives back the count and the pin it took, under the lock it holds.
C17_FailedGetRestores ==
    [][\A t \in Threads :
         LET r == thr[t].rp IN
         /\ (thr[t].pc = "get_lock" /\ thr'[t].pc = "ret")
            => thr'[t].ret = "NULL" /\ rproc' = rproc /\ load' = load
         /\ (thr[t].pc = "get_count" /\ thr'[t].pc = "ret"
               /\ thr'[t].ret = "NULL")
            => SameUse(r) /\ load' = load
         /\ (thr[t].pc = "get_count" /\ thr'[t].pc = "get_init")
            => /\ rproc[r].count = 0 /\ rproc'[r].count = 1
               /\ rproc'[r].pins = rproc[r].pins + 1
               /\ rproc'[r].state = rproc[r].state
         /\ (thr[t].pc = "get_init" /\ thr'[t].pc = "get_deref")
            => SameUse(r) /\ load' = load
         /\ (thr[t].pc = "get_deref" /\ thr'[t].pc = "get_deref2")
            => SameUse(r) /\ load' = load
         /\ (thr[t].pc = "get_deref2" /\ thr'[t].pc = "ret")
            => /\ thr'[t].ret = "NULL"
               /\ rproc[r].count = 1 /\ rproc'[r].count = 0
               /\ rproc'[r].pins = rproc[r].pins - 1
               /\ rproc'[r].state = rproc[r].state
               /\ load' = load /\ ~LoadInFlight(r)
         /\ (thr[t].pc \in {"get_init", "get_deref", "get_deref2"}
               /\ thr'[t] = thr[t] /\ Live(r))
            => SameUse(r)
         /\ (thr[t].pc \notin {"ret", "idle"} /\ thr[t].pc \notin PutPcs
               /\ thr[t].pc # "unreg_del"
               /\ thr'[t].pc = "ret" /\ thr'[t].ret = "NULL")
            => thr[t].pc \in {"get_lock", "get_count", "get_deref2"}]_vars

\* a rproc_get failed on a record without a firmware name
C17_Witness ==
    \E t \in Threads, r \in RecIds :
        /\ thr[t].pc = "ret" /\ thr[t].ret = "NULL"
        /\ Live(r) /\ ~rproc[r].firmware /\ rproc[r].done = "done"
        /\ rproc[r].count = 0 /\ rproc[r].pins = 0
        /\ rproc[r].state = "OFFLINE"

(* ------------------------------------------------------------------ *)
(* C18                                                                 *)
(* ------------------------------------------------------------------ *)
\* thread t returns from rproc_put in this step
PutReturns(t) == thr[t].pc \in PutPcs /\ thr'[t].pc = "ret"

C19_OnlyLastPutPowersOff ==
    [][/\ \A t \in Threads :
            LET r == thr[t].rp IN
            (thr[t].pc = "put_dec" /\ thr'[t] # thr[t] /\ rproc[r].count > 1)
            => /\ thr'[t].pc = "ret" /\ thr'[t].ret = "void"
               /\ rproc'[r].count = rproc[r].count - 1
               /\ rproc'[r].state = rproc[r].state
               /\ rproc'[r].tr = rproc[r].tr
               /\ load' = load
       /\ \A r \in RecIds :
            (Live(r) /\ rproc[r].state # "OFFLINE" /\ rproc'[r].state = "OFFLINE")
            => \E t \in Threads :
                  /\ thr[t].rp = r /\ thr[t].pc \in {"put_dec", "put_stop"}
                  /\ thr'[t] # thr[t]
                  /\ rproc'[r].count = 0]_vars

\* two holders of a RUNNING processor, one has put its handle: the state is
\* still RUNNING with the trace buffer bound
C19_Witness ==
    \E t \in Threads, r \in RecIds :
        /\ thr[t].pc = "ret" /\ thr[t].ret = "void"
        /\ Live(r) /\ rproc[r].count = 1 /\ held[r] = 1
        /\ rproc[r].state = "RUNNING" /\ rproc[r].tr.b0 = "live"

(* ------------------------------------------------------------------ *)
(* C20                                                                 *)
(* ------------------------------------------------------------------ *)
\* C20: whenever no call and no callback is under way, a record with
\* refcount 0 has both trace pointers NULL.
C20_NoTraceAtZero ==
    Quiescent =>
        \A r \in RecIds : (Live(r) /\ rproc[r].count = 0) => NoTraceBound(r)

\* a trace buffer was bound by a load and cleared again by the last put
C20_Witness ==
    /\ Quiescent
    /\ \E r \in RecIds :
          /\ Live(r) /\ rproc[r].count = 0 /\ NoTraceBound(r)
          /\ rproc[r].tr.l0 # 0

(* ------------------------------------------------------------------ *)
(* C21: RPROC_RUNNING is written by a successful ops->start only       *)
(* ------------------------------------------------------------------ *)
\* C21: whenever a record's state is RUNNING, ops->start has returned
\* success on it since its state was last OFFLINE: every step that takes
\* the state to RUNNING from another state is the step of rproc_start in
\* which ops->start returns 0, made by the firmware worker of this record.
C21_RunningByStart ==
    [][\A r \in RecIds :
          rproc'[r].state = "RUNNING" /\ rproc[r].state # "RUNNING" =>
              \E l \in LoadIds : /\ load[l].pc = "start" /\ load[l].rp = r
                                 /\ load'[l].start = "ok"]_vars

\* a record is RUNNING, its worker having just come back from a
\* successful ops->start
C21_Witness ==
    \E r \in RecIds, l \in LoadIds :
        /\ Live(r) /\ rproc[r].state = "RUNNING"
        /\ load[l].rp = r /\ load[l].pc = "complete" /\ load[l].start = "ok"

(* ------------------------------------------------------------------ *)
(* C22: rproc_register followed by rproc_unregister of the same name   *)
(* ------------------------------------------------------------------ *)
\* C22: rproc_register(name) immediately followed by rproc_unregister(name)
\* gives back the registry as it was.  rproc_register appends its record at
\* the tail of the list, so the registry is as before exactly when the
\* unregistration takes that tail record out: a call of rproc_unregister
\* with the name of the record registered last finds that record.
C22_RegisterUnregister ==
    [][\A t \in Threads :
          /\ thr[t].pc = "idle" /\ thr'[t].pc = "unreg_del"
          /\ rprocs # <<>>
          /\ rproc[rprocs[Len(rprocs)]].name = thr'[t].name
          => thr'[t].rp = rprocs[Len(rprocs)]]_vars

\* rproc_unregister is about to take out a record that is followed in the
\* list by a younger record of the same name
C22_Witness ==
    \E t \in Threads :
        /\ thr[t].pc = "unreg_del"
        /\ \E i, j \in 1..Len(rprocs) :
              /\ i < j /\ rprocs[i] = thr[t].rp
              /\ rproc[rprocs[j]].name = rproc[rprocs[i]].name

(* ------------------------------------------------------------------ *)
(* Direct calls of the loader's functions.  The functions below the    *)
(* firmware callback are functions of their arguments and of the trace *)
(* fields of the record; here each is called once on arguments drawn   *)
(* from bounded sets and fn keeps the arguments and the result.        *)
(* ------------------------------------------------------------------ *)
MaxEntries == 2      \* entries of a memory map table before its sentinel

\* the entries of the map tables: device address, physical address, size
\* (size 0 is the sentinel); the last da puts an entry at the top of the
\* u64 range
EntryDas   == {0, 16, W64 - 16}
EntryPas   == {0, 32}
EntrySizes == {0, 16}
MapEntries == [da : EntryDas, pa : EntryPas, size : EntrySizes]
ProbeMaps  == {NoMaps} \cup
              {[null |-> FALSE, tab |-> t] :
                  t \in UNION {[1..n -> MapEntries] : n \in 0..MaxEntries}}
\* the device addresses translated
ProbeDas   == {0, 8, 15, 16, 24, 31, 32, W32 - 1, W32, W32 + 1,
               W64 - 17, W64 - 16, W64 - 8, W64 - 1}

\* rproc_da_to_pa(maps, da, &pa)
CallDaToPa ==
    /\ fn = NoCall
    /\ \E maps \in ProbeMaps, da \in ProbeDas :
          fn' = [op |-> "rproc_da_to_pa", maps |-> maps, da |-> da,
                 out |-> rproc_da_to_pa(maps, da)]
    /\ UNCHANGED <<rprocs, rproc, thr, held, load, nasym>>

SpecDaToPa == Init /\ [][CallDaToPa]_vars

MaxRscs == 3         \* entries of a resource section

\* the entries of a resource section: trace buffers (the third one at a
\* device address that does not translate), boot addresses, a carveout
RscEntries == {Rsc(RSC_TRACE, 64, 8), Rsc(RSC_TRACE, 72, 4),
               Rsc(RSC_TRACE, W32, 4), Rsc(RSC_BOOTADDR, 128, 0),
               Rsc(RSC_BOOTADDR, 256, 0), Rsc(RSC_CARVEOUT, 0, 16)}
RscLists   == UNION {[1..n -> RscEntries] : n \in 0..MaxRscs}
\* the trace fields at the call: no buffer, or buffers bound by an earlier
\* resource section of the same image
TraceStarts == {NoTrace, [NoTrace EXCEPT !.b0 = "live", !.l0 = 16],
                [b0 |-> "live", l0 |-> 16, b1 |-> "live", l1 |-> 32]}
\* *bootaddr at the call: 0, or the address an earlier section recorded
BootStarts == {0, 512}

\* rproc_handle_resources(rproc, rsc, len, &bootaddr): len is the length
\* of the section, a whole number of entries or up to 75 bytes more
CallHandleResources ==
    /\ fn = NoCall
    /\ \E tr \in TraceStarts, rscs \in RscLists,
          slack \in {0, SIZEOF_FW_RESOURCE - 1}, bootaddr \in BootStarts,
          failAt \in 0..MaxRscs :
          /\ failAt <= NTrace(rscs)
          /\ fn' = [op |-> "rproc_handle_resources", tr |-> tr, rscs |-> rscs,
                    bootaddr |-> bootaddr, failAt |-> failAt,
                    out |-> rproc_handle_resources(NoMaps, tr, rscs,
                                Len(rscs) * SIZEOF_FW_RESOURCE + slack,
                                bootaddr, failAt)]
    /\ UNCHANGED <<rprocs, rproc, thr, held, load, nasym>>

SpecResources == Init /\ [][CallHandleResources]_vars

MaxSecs == 2         \* sections of an image

\* rproc_process_fw: the while loop over the sections from section i on,
\* left the bytes of the image from that section's header on; ioFail is
\* the number of the section whose ioremap_nocache fails (0: none).  n is
\* the number of sections copied to their place.  AfterSection is the end
\* of an iteration with result res: break on an error, else the next test
\* of the loop.
RECURSIVE rproc_process_fw(_, _, _, _, _, _, _)
RECURSIVE AfterSection(_, _, _, _, _)
AfterSection(maps, secs, i, ioFail, res) ==
    IF res.ret # "OK"
    THEN [ret |-> res.ret, tr |-> res.tr, bootaddr |-> res.bootaddr,
          n |-> i - 1]
    ELSE rproc_process_fw(maps, res.tr, secs, i + 1, res.left, res.bootaddr,
                          ioFail)

rproc_process_fw(maps, tr, secs, i, left, bootaddr, ioFail) ==
    IF ~(left > SIZEOF_FW_SECTION) \/ i > Len(secs)
    THEN [ret |-> "OK", tr |-> tr, bootaddr |-> bootaddr, n |-> i - 1]
    ELSE AfterSection(maps, secs, i, ioFail,
                      process_section(maps, tr, secs[i], left, bootaddr,
                                      i # ioFail, 0))

\* the end of rproc_load_fw: rproc_start is called when rproc_process_fw
\* returned 0
AfterProcess(p) ==
    [ret |-> p.ret, tr |-> p.tr, bootaddr |-> p.bootaddr, n |-> p.n,
     start |-> p.ret = "OK"]

\* the body of rproc_load_fw for a record without trace buffers: the
\* checks of the image, rproc_process_fw, and whether rproc_start is
\* reached
LoadFw(maps, fw, ioFail) ==
    IF ~fw.present
    THEN [ret |-> "ENOENT", tr |-> NoTrace, bootaddr |-> 0, n |-> 0,
          start |-> FALSE]
    ELSE IF fw.size < SIZEOF_FW_HEADER
    THEN [ret |-> "TOOSMALL", tr |-> NoTrace, bootaddr |-> 0, n |-> 0,
          start |-> FALSE]
    ELSE IF ~fw.magic
    THEN [ret |-> "BADMAGIC", tr |-> NoTrace, bootaddr |-> 0, n |-> 0,
          start |-> FALSE]
    ELSE AfterProcess(rproc_process_fw(maps, NoTrace, fw.secs, 1,
                          U32(fw.size - SIZEOF_FW_HEADER - fw.header_len),
                          0, ioFail))

\* the sections of the images: data of four bytes and of one byte,
\* sections without content (the second at a device address that does not
\* translate), a resource section
SecChoices == {Sec(FW_DATA, 16, 4, <<>>), Sec(FW_DATA, 24, 1, <<>>),
               Sec(FW_TEXT, 0, 0, <<>>), Sec(FW_DATA, W32, 0, <<>>),
               Sec(FW_RESOURCE, 32, SIZEOF_FW_RESOURCE,
                   <<Rsc(RSC_BOOTADDR, 128, 0)>>)}
SecLists   == UNION {[1..n -> SecChoices] : n \in 0..MaxSecs}

\* the bytes the sections of a list take: a header and len bytes each
RECURSIVE SecBytes(_, _)
SecBytes(secs, i) ==
    IF i > Len(secs) THEN 0
    ELSE SIZEOF_FW_SECTION + secs[i].len + SecBytes(secs, i + 1)

\* the image of these sections with its last `cut` bytes missing
CutImage(hlen, secs, cut) ==
    Blob(SIZEOF_FW_HEADER + hlen + SecBytes(secs, 1) - cut, TRUE, hlen, secs)

\* rproc_load_fw on an image that is complete, or ends inside the content
\* or inside the header of its last section
CallLoadFw ==
    /\ fn = NoCall
    /\ \E secs \in SecLists, hlen \in {0, 4}, ioFail \in 0..MaxSecs,
          cut \in 0..(SIZEOF_FW_RESOURCE + SIZEOF_FW_SECTION - 1) :
          /\ ioFail <= Len(secs)
          /\ IF secs = <<>> THEN cut = 0
             ELSE cut < secs[Len(secs)].len + SIZEOF_FW_SECTION
          /\ fn' = [op |-> "rproc_load_fw", fw |-> CutImage(hlen, secs, cut),
                    cut |-> cut, ioFail |-> ioFail,
                    out |-> LoadFw(NoMaps, CutImage(hlen, secs, cut), ioFail)]
    /\ UNCHANGED <<rprocs, rproc, thr, held, load, nasym>>

SpecLoadFw == Init /\ [][CallLoadFw]_vars

(* ------------------------------------------------------------------ *)
(* C28: rproc_da_to_pa against the translation it is meant to compute  *)
(* ------------------------------------------------------------------ *)
\* C28: rproc_da_to_pa returns what the reference translation returns, for
\* every map table and device address, also for an entry whose da + size
\* reaches the top of the u64 range.  The reference, in unbounded
\* arithmetic: with a table, the first entry before the sentinel with
\* entry.da <= da < entry.da + entry.size gives entry.pa + (da - entry.da),
\* no such entry gives -EINVAL; without a table, da when it fits phys_addr_t.
C28_TranslateIsReference ==
    fn.op = "rproc_da_to_pa" =>
        LET tab  == fn.maps.tab
            da   == fn.da
            hits == {i \in 1..Len(tab) :
                        /\ \A j \in 1..i : tab[j].size # 0
                        /\ tab[i].da <= da /\ da < tab[i].da + tab[i].size}
            invalid == [ret |-> "EINVAL", pa |-> 0]
        IN
        IF fn.maps.null
        THEN fn.out = IF da < W32 THEN [ret |-> "OK", pa |-> da] ELSE invalid
        ELSE IF hits = {}
        THEN fn.out = invalid
        ELSE LET i == CHOOSE h \in hits : \A k \in hits : h <= k IN
             fn.out = [ret |-> "OK", pa |-> tab[i].pa + (da - tab[i].da)]

\* a device address inside an entry that ends at the top of the u64 range
\* was translated
C28_Witness ==
    /\ fn.op = "rproc_da_to_pa" /\ ~fn.maps.null
    /\ \E i \in 1..Len(fn.maps.tab) :
          /\ fn.maps.tab[i].da + fn.maps.tab[i].size = W64
          /\ fn.maps.tab[i].da <= fn.da

(* ------------------------------------------------------------------ *)
(* C23: several RSC_BOOTADDR entries                                   *)
(* ------------------------------------------------------------------ *)
\* C23 as claimed: when a resource section with more than one BOOTADDR
\* entry is handled without error and no address was recorded before, the
\* boot address that results is the da of the first BOOTADDR entry.
C23_FirstBootaddrKept ==
    (fn.op = "rproc_handle_resources" /\ fn.out.ret = "OK" /\ fn.bootaddr = 0) =>
        LET bs == {i \in 1..Len(fn.rscs) : fn.rscs[i].type = RSC_BOOTADDR} IN
        Cardinality(bs) > 1 =>
            fn.out.bootaddr = fn.rscs[CHOOSE i \in bs : \A j \in bs : i <= j].da

\* C23 as the code has it: the boot address that results is the da of the
\* last BOOTADDR entry handled, every entry replacing the address recorded
\* before it; without a BOOTADDR entry the address is left as it was.
C23_LastBootaddrWins ==
    (fn.op = "rproc_handle_resources" /\ fn.out.ret = "OK") =>
        LET bs == {i \in 1..Len(fn.rscs) : fn.rscs[i].type = RSC_BOOTADDR} IN
        fn.out.bootaddr =
            IF bs = {} THEN fn.bootaddr
            ELSE fn.rscs[CHOOSE i \in bs : \A j \in bs : i >= j].da

\* a section with two BOOTADDR entries of different da was handled
C23_Witness ==
    /\ fn.op = "rproc_handle_resources" /\ fn.out.ret = "OK"
    /\ \E i, j \in 1..Len(fn.rscs) :
          /\ i < j
          /\ fn.rscs[i].type = RSC_BOOTADDR /\ fn.rscs[j].type = RSC_BOOTADDR
          /\ fn.rscs[i].da # fn.rscs[j].da

(* ------------------------------------------------------------------ *)
(* C26: a failing resource section gives back the trace mappings       *)
(* ------------------------------------------------------------------ *)
\* C26: when an entry of a resource section fails, no trace mapping
\* obtained for the record during this load is still mapped when
\* rproc_handle_resources returns, whether this section or an earlier one
\* obtained it.
C26_FailedSectionUnmaps ==
    (fn.op = "rproc_handle_resources" /\ fn.out.ret # "OK") =>
        fn.out.tr.b0 # "live" /\ fn.out.tr.b1 # "live"

\* the section failed after a trace buffer was mapped, by this section
\* (its length is the entry's) or by an earlier one
C26_Witness ==
    /\ fn.op = "rproc_handle_resources" /\ fn.out.ret # "OK"
    /\ fn.out.tr.b0 = "stale"

(* ------------------------------------------------------------------ *)
(* C25: the two trace buffers                                          *)
(* ------------------------------------------------------------------ *)
\* C25: during one load the first TRACE entry is bound as trace0 and the
\* second as trace1, each with the length of its entry; a resource section
\* with a third TRACE entry fails (with -EBUSY, which only a third entry
\* produces, unless a mapping failed before) and the load with it; a trace
\* buffer gets bound only by a step of the record's firmware callback.
C25_TraceBindings ==
    [][\A r \in RecIds :
          LET t0 == rproc[r].tr
              t1 == rproc'[r].tr
          IN
          /\ ((t1.b0 = "live" /\ t0.b0 # "live") \/ (t1.b1 = "live" /\ t0.b1 # "live"))
                => \E l \in LoadIds : load[l].pc = "process" /\ load[l].rp = r
          /\ \A l \in LoadIds :
                (/\ load[l].pc = "process" /\ load[l].rp = r
                 /\ load'[l] # load[l]
                 /\ load[l].left > SIZEOF_FW_SECTION
                 /\ load[l].idx <= Len(load[l].img.secs)
                 /\ load[l].img.secs[load[l].idx].type = FW_RESOURCE
                 /\ t0.b0 = "null" /\ t0.b1 = "null")
                =>
                LET ts == SelectSeq(load[l].img.secs[load[l].idx].rsc,
                                    LAMBDA e : e.type = RSC_TRACE)
                IN
                /\ Len(ts) > 2 => /\ load'[l].pc = "complete"
                                  /\ load'[l].ret \in {"EBUSY", "ENOMEM"}
                /\ load'[l].ret = "EBUSY" => Len(ts) > 2
                /\ load'[l].pc = "process" =>
                      t1 = [b0 |-> IF Len(ts) >= 1 THEN "live" ELSE "null",
                            l0 |-> IF Len(ts) >= 1 THEN ts[1].len ELSE t0.l0,
                            b1 |-> IF Len(ts) >= 2 THEN "live" ELSE "null",
                            l1 |-> IF Len(ts) >= 2 THEN ts[2].len ELSE t0.l1]]_vars

\* a load with two TRACE entries has completed: trace0 and trace1 are
\* bound with the lengths of the first and of the second entry
C25_Witness ==
    \E r \in RecIds :
        /\ Live(r) /\ rproc[r].done = "done"
        /\ rproc[r].tr = [b0 |-> "live", l0 |-> 8, b1 |-> "live", l1 |-> 4]

(* ------------------------------------------------------------------ *)
(* C27: a section that fails after a resource section bound buffers    *)
(* ------------------------------------------------------------------ *)
\* the step of worker l in which rproc_process_fw fails on a section that
\* is not a resource section (truncated, no translation, no mapping)
LoaderFails(l) ==
    /\ load[l].pc = "process" /\ load'[l].pc = "complete"
    /\ load[l].left > SIZEOF_FW_SECTION
    /\ load[l].idx <= Len(load[l].img.secs)
    /\ load[l].img.secs[load[l].idx].type # FW_RESOURCE

SoundSections ==
    /\ fn.op = "rproc_load_fw" /\ fn.ioFail = 0
    /\ \A i \in 1..Len(fn.fw.secs) : fn.fw.secs[i].da < W32

\* C29: an image of header and header text only loads without error; an
\* image whose last section has exactly its len bytes after its header is
\* accepted, for every len from 0 on, and the load reaches rproc_start;
\* an image whose last section announces one byte more than the image
\* holds after its header fails as truncated.
C29_Boundaries ==
    SoundSections =>
        LET secs == fn.fw.secs
            last == secs[Len(secs)]
        IN
        /\ secs = <<>> => fn.out.ret = "OK" /\ fn.out.start
        /\ (secs # <<>> /\ fn.cut = 0) => fn.out.ret = "OK" /\ fn.out.start
        /\ (secs # <<>> /\ fn.cut = 1 /\ last.len >= 1) => fn.out.ret = "EINVAL"

\* the image ends with the header of a section that announces one byte
\* of content
C29_Witness ==
    /\ SoundSections /\ fn.cut = 1
    /\ fn.fw.secs # <<>>
    /\ fn.fw.secs[Len(fn.fw.secs)].len = 1

\* C30: an image that ends inside the header of a section, or inside the
\* content the header announces, fails as truncated and rproc_start is
\* not called.
C30_TruncatedFails ==
    (SoundSections /\ fn.cut > 0) =>
        fn.out.ret = "EINVAL" /\ ~fn.out.start

\* an image that ends inside a section header was handed to the loader
C30_Witness ==
    /\ SoundSections /\ fn.fw.secs # <<>>
    /\ fn.cut > fn.fw.secs[Len(fn.fw.secs)].len

(* ------------------------------------------------------------------ *)
(* C31: the transitions of rproc->state                                *)
(* ------------------------------------------------------------------ *)
\* C31: every change of a registered record's state is OFFLINE -> LOADING,
\* LOADING -> RUNNING, LOADING -> OFFLINE or RUNNING -> OFFLINE; RUNNING is
\* never followed directly by LOADING and no other state is ever written.
C31_Transitions ==
    [][\A r \in RecIds :
          (Live(r) /\ rproc'[r].state # rproc[r].state) =>
              <<rproc[r].state, rproc'[r].state>> \in
                  {<<"OFFLINE", "LOADING">>, <<"LOADING", "RUNNING">>,
                   <<"LOADING", "OFFLINE">>, <<"RUNNING", "OFFLINE">>}]_vars

\* a record that is RUNNING with no user left (ops->stop failed in the
\* last rproc_put) is taken by a first rproc_get that is about to write
\* RPROC_LOADING
C31_Witness ==
    \E t \in Threads :
        /\ thr[t].pc = "get_state" /\ thr[t].rp # NULL
        /\ rproc[thr[t].rp].state = "RUNNING"

(* ------------------------------------------------------------------ *)
(* C32: rprocs_lock and rproc->lock                                    *)
(* ------------------------------------------------------------------ *)
\* rprocs_lock is taken and released inside __find_rproc_by_name and around
\* list_add_tail and list_del, each one step here: a step that walks or
\* changes the list.
RegistryStep ==
    \/ rprocs' # rprocs
    \/ \E t \in Threads : /\ thr[t].pc = "idle"
                           /\ thr'[t].pc \notin {"idle", "put_check"}

\* C32: no thread holds rprocs_lock and a record's lock at the same time:
\* the thread that makes a step under rprocs_lock holds no record's lock,
\* no record's lock is taken or released in such a step, and the firmware
\* callback makes no such step.
C32_LocksNotNested ==
    [][RegistryStep =>
          /\ \A r \in RecIds : rproc'[r].lock = rproc[r].lock
          /\ \A t \in Threads : thr'[t] # thr[t] =>
                                   \A r \in RecIds : rproc[r].lock # t
          /\ load' = load]_vars

\* a thread has found a record in the list while another thread holds that
\* record's lock
C32_Witness ==
    \E t, u \in Threads :
        /\ t # u /\ thr[t].pc = "get_lock"
        /\ rproc[thr[t].rp].lock = u

(* ------------------------------------------------------------------ *)
(* C33: rproc->state, ops->start and ops->stop under rproc->lock       *)
(* ------------------------------------------------------------------ *)
\* the step is made by the owner of record r's lock: the thread or the
\* firmware worker that took it with mutex_lock_interruptible
HolderActs(r) ==
    \/ \E t \in Threads : /\ rproc[r].lock = t /\ thr[t].rp = r
                           /\ thr'[t] # thr[t]
    \/ \E l \in LoadIds : /\ rproc[r].lock = -l /\ load[l].rp = r
                           /\ load'[l] # load[l]

\* C33: every change of a registered record's state, the call of ops->start
\* in rproc_start and the call of ops->stop in rproc_put are steps of the
\* thread (or firmware worker) that holds the record's lock.
C33_StateUnderLock ==
    [][\A r \in RecIds :
          /\ (Live(r) /\ rproc'[r].state # rproc[r].state) => HolderActs(r)
          /\ \A l \in LoadIds :
                (load[l].pc = "start" /\ load[l].rp = r /\ load'[l] # load[l])
                    => rproc[r].lock = -l
          /\ \A t \in Threads :
                (thr[t].pc = "put_stop" /\ thr[t].rp = r /\ thr'[t] # thr[t])
                    => rproc[r].lock = t]_vars

\* the core was started by the firmware worker and the last rproc_put is
\* about to call ops->stop, while another thread waits for the lock
C33_Witness ==
    \E t, u \in Threads :
        /\ t # u /\ thr[t].pc = "put_stop" /\ thr[u].pc = "get_lock"
        /\ thr[u].rp = thr[t].rp
        /\ rproc[thr[t].rp].state = "RUNNING"
        /\ rproc[thr[t].rp].lock = t

(* ------------------------------------------------------------------ *)
(* C34: rproc->count and the trace buffers under rproc->lock           *)
(* ------------------------------------------------------------------ *)
\* C34: every step that writes a registered record's count or its trace
\* buffers is made by the owner of the record's lock, and so is the step of
\* rproc_put that tests the count for zero.
C34_CountTraceUnderLock ==
    [][\A r \in RecIds :
          /\ (Live(r) /\ (rproc'[r].count # rproc[r].count
                          \/ rproc'[r].tr # rproc[r].tr)) => HolderActs(r)
          /\ \A t \in Threads :
                (thr[t].pc = "put_check" /\ thr[t].rp = r /\ thr'[t] # thr[t])
                    => rproc[r].lock = t]_vars

\* the firmware worker has bound a trace buffer while a thread holds the
\* record's lock
C34_Witness ==
    \E l \in LoadIds, t \in Threads :
        /\ load[l].pc \in {"process", "complete"}
        /\ rproc[load[l].rp].tr.b0 # "null"
        /\ rproc[load[l].rp].lock = t

(* ------------------------------------------------------------------ *)
(* C35: every trace mapping is given back once                         *)
(* ------------------------------------------------------------------ *)
\* C35: a registered record's trace buffer pointer never refers to a
\* mapping that was already given back with iounmap, and the last
\* rproc_put, which unmaps whatever the pointers hold, never unmaps such a
\* mapping a second time.
C35_TraceReleasedOnce ==
    [][\A r \in RecIds :
          Live(r) =>
              /\ rproc'[r].tr.b0 # "stale" /\ rproc'[r].tr.b1 # "stale"
              /\ \A t \in Threads :
                    (/\ thr[t].pc = "put_dec" /\ thr[t].rp = r
                     /\ rproc[r].count = 1 /\ thr'[t] # thr[t])
                        => rproc[r].tr.b0 # "stale" /\ rproc[r].tr.b1 # "stale"]_vars

\* the last rproc_put holds the lock and is about to unmap a trace buffer
\* that the failure path of rproc_handle_resources has unmapped already
C35_Witness ==
    \E t \in Threads :
        /\ thr[t].pc = "put_dec" /\ thr[t].rp # NULL
        /\ rproc[thr[t].rp].count = 1
        /\ rproc[thr[t].rp].tr.b0 = "stale"

(* ------------------------------------------------------------------ *)
(* C36: concurrent calls of rproc_unregister                           *)
(* ------------------------------------------------------------------ *)
\* C36: the lookup and the removal of rproc_unregister are one atomic step
\* with respect to other registry operations, so that a record is unlinked
\* and freed at most once: a thread that found a record and is about to
\* list_del and kfree it never stands on a record another call has freed.
C36_UnregisterOnce ==
    \A t \in Threads :
        thr[t].pc = "unreg_del" => rproc[thr[t].rp].alloc = "live"

\* two calls of rproc_unregister have found the same record and neither
\* has removed it yet
C36_Witness ==
    \E t, u \in Threads :
        /\ t # u /\ thr[t].pc = "unreg_del" /\ thr[u].pc = "unreg_del"
        /\ thr[t].rp = thr[u].rp
        /\ rproc[thr[t].rp].alloc = "live"

(* ------------------------------------------------------------------ *)
(* C37: one firmware load at a time                                    *)
(* ------------------------------------------------------------------ *)
\* the firmware callbacks requested for record r that have not yet raised
\* the completion
LoadsInFlight(r) == {l \in LoadIds : load[l].pc # "idle" /\ load[l].rp = r}

\* C37: at most one firmware load is in flight per record, and the step of
\* rproc_get that runs init_completion and requests the firmware is never
\* made while a load of that record is in flight or a call of rproc_put
\* waits for the completion.
C37_OneLoadInFlight ==
    [][\A r \in RecIds :
          /\ Cardinality({l \in LoadIds : load'[l].pc # "idle"
                                          /\ load'[l].rp = r}) <= 1
          /\ (\E t \in Threads : /\ thr[t].pc = "get_init" /\ thr[t].rp = r
                                 /\ thr'[t] # thr[t])
                => /\ LoadsInFlight(r) = {}
                   /\ \A u \in Threads :
                         ~(thr[u].pc = "put_wait" /\ thr[u].rp = r)]_vars

\* a load is in flight, a call of rproc_put waits for its completion and
\* another thread is inside rproc_get on the same record
C37_Witness ==
    \E t, u \in Threads :
        /\ thr[t].pc = "put_wait" /\ thr[u].pc = "get_count"
        /\ thr[u].rp = thr[t].rp
        /\ rproc[thr[t].rp].done = "pending"
        /\ LoadsInFlight(thr[t].rp) # {}

(* ------------------------------------------------------------------ *)
(* C38: ops->start and ops->stop alternate                             *)
(* ------------------------------------------------------------------ *)
\* C38: successful calls of ops->start and ops->stop on one core alternate,
\* beginning with ops->start: a section of firmware is copied and
\* ops->start is called only while the core is off (never started, or
\* stopped with success since it was last started), and ops->stop is called
\* only while it is on.
C38_StartStopAlternate ==
    [][\A r \in RecIds :
          /\ \A l \in LoadIds :
                (load[l].rp = r /\ load'[l] # load[l]
                 /\ \/ load[l].pc = "start"
                    \/ load[l].pc = "process" /\ load'[l].idx > load[l].idx)
                    => rproc[r].core = "off"
          /\ \A t \in Threads :
                (thr[t].pc = "put_stop" /\ thr[t].rp = r /\ thr'[t] # thr[t])
                    => rproc[r].core = "on"]_vars

\* the firmware worker holds the lock and is about to call ops->start on a
\* core that is on
C38_Witness ==
    \E l \in LoadIds :
        /\ load[l].pc = "start" /\ load[l].rp # NULL
        /\ rproc[load[l].rp].core = "on"

(* ------------------------------------------------------------------ *)
(* C39: module pins and the usage count                                *)
(* ------------------------------------------------------------------ *)
\* no call of rproc_get or rproc_put is under way on record r
NoGetPut(r) ==
    \A t \in Threads : thr[t].rp = r => thr[t].pc = "unreg_del"

\* C39: whenever no rproc_get and no rproc_put is under way on a registered
\* record, the pins of the owner module taken by rproc_get for it and not
\* given back equal its usage count.
C39_PinsEqualCount ==
    \A r \in RecIds :
        (Live(r) /\ NoGetPut(r)) => rproc[r].pins = rproc[r].count

\* no call is under way, the last rproc_put has failed to stop the core:
\* the count is 0 and the pin is still taken
C39_Witness ==
    \E r \in RecIds :
        /\ Live(r) /\ NoGetPut(r)
        /\ rproc[r].count = 0 /\ rproc[r].pins = 1
        /\ rproc[r].state = "RUNNING"

(* ------------------------------------------------------------------ *)
(* C40: the bytes rproc_load_fw reads                                  *)
(* ------------------------------------------------------------------ *)
\* The reads of the while loop of rproc_process_fw.  secs is what memory
\* spells from the first section header on, inside the blob or behind it,
\* off the offset of section i in the blob, left the 32 bit pattern of the
\* int `left`.  The loop reads the 16 bytes of the section header before it
\* tests anything, and memcpy reads the len bytes of content.  The result
\* is the offset behind the last byte read (end) and the number of
\* sections copied (n); what lies behind the last element of secs is not
\* followed.
RECURSIVE SectionReads(_, _, _, _, _, _)
SectionReads(maps, secs, i, off, left, end) ==
    IF ~(left > SIZEOF_FW_SECTION) \/ i > Len(secs)
    THEN [end |-> end, n |-> i - 1]
    ELSE IF U32(left - SIZEOF_FW_SECTION) < secs[i].len
            \/ rproc_da_to_pa(maps, secs[i].da).ret # "OK"
    THEN [end |-> off + SIZEOF_FW_SECTION, n |-> i - 1]
    ELSE SectionReads(maps, secs, i + 1,
                      off + SIZEOF_FW_SECTION + secs[i].len,
                      U32(left - SIZEOF_FW_SECTION - secs[i].len),
                      off + SIZEOF_FW_SECTION + secs[i].len)

\* rproc_load_fw on a blob of `size` bytes (at least the fixed header) with
\* header_len hlen: the fixed header is read, the text header is skipped,
\* left = fw->size - sizeof(struct fw_header) - image->header_len
LoadReads(maps, size, hlen, secs) ==
    SectionReads(maps, secs, 1, SIZEOF_FW_HEADER + hlen,
                 U32(size - SIZEOF_FW_HEADER - hlen), SIZEOF_FW_HEADER)

\* sizes of blobs and values of header_len, some larger than the blob
BlobSizes  == {12, 28, 32, 45, 48}
HeaderLens == {0, 4, 20, 40, W32 - 4}

CallLoadReads ==
    /\ fn = NoCall
    /\ \E size \in BlobSizes, hlen \in HeaderLens, secs \in SecLists :
          fn' = [op |-> "rproc_load_fw reads", size |-> size, hlen |-> hlen,
                 secs |-> secs, out |-> LoadReads(NoMaps, size, hlen, secs)]
    /\ UNCHANGED <<rprocs, rproc, thr, held, load, nasym>>

SpecLoadReads == Init /\ [][CallLoadReads]_vars

\* C40: for a blob of any size from the fixed header on, any header_len and
\* any section lengths, the loader reads no byte at an offset at or behind
\* the end of the blob, and when header_len exceeds the bytes that follow
\* the fixed header no section is processed.
C40_ReadsInsideBlob ==
    fn.op = "rproc_load_fw reads" =>
        /\ fn.out.end <= fn.size
        /\ fn.hlen > fn.size - SIZEOF_FW_HEADER => fn.out.n = 0

\* header_len is larger than what follows the fixed header, and the loader
\* has copied a section from behind the end of the blob
C40_Witness ==
    /\ fn.op = "rproc_load_fw reads"
    /\ fn.hlen > fn.size - SIZEOF_FW_HEADER
    /\ fn.out.n > 0 /\ fn.out.end > fn.size

====
